---- MODULE Spec2Model ----
(***************************************************************************)
(* RAG ingestion pipeline of image_understanding: utils.py (validators and *)
(* the CSV/image matcher) and rag_processor.py (RAGProcessor, the          *)
(* orchestrator).  data_ops.create_s3_folder, data_ops.upload_csv_to_s3    *)
(* and data_ops.process_image_record are imported by rag_processor.py but  *)
(* are not among the sources; they are modelled from spec.md sections 4.3  *)
(* to 4.6.  Further sections model two concurrent invocations on one       *)
(* store, a reused RAGProcessor, the two image upload functions and the    *)
(* label-studio workflow (ImageProcessor, S3Service.upload_images_batch).  *)
(*                                                                         *)
(* Strings are sequences of one-character strings, so that lower(),        *)
(* split('.'), replace() and strip() are computed as Python computes them. *)
(***************************************************************************)
EXTENDS Integers, Sequences, FiniteSets, TLC

VARIABLES
    csv_file,           \* the uploaded tabular file handed to run_full_workflow
    uploaded_images,    \* the uploaded image batch handed to run_full_workflow
    pc,                 \* position of the current run_full_workflow call
    processing_results, \* RAGProcessor.processing_results
    df,                 \* RAGProcessor.df
    validated_images,   \* RAGProcessor.validated_images
    matched_records,    \* RAGProcessor.matched_records
    missing_items,      \* RAGProcessor.missing_items
    s3_folder,          \* RAGProcessor.s3_folder
    idx,                \* number of matched records the loop of process_records has handled
    db,                 \* rows of the relational store, as the sequence of their image_name
    skip_success,       \* the success flag process_image_record returns for an existing key
    calls,              \* history: collaborator calls made by the current run, in order
    db_at_start,        \* history: the store when the current run started
    prev_full,          \* history: the previous run inserted every matched record
    now,                \* the wall clock, in seconds (it stands still in Spec)
    m_rows,             \* matcher alone: the table given to match_csv_with_images
    m_images,           \* matcher alone: the blobs given to match_csv_with_images
    m_out,              \* matcher alone: what match_csv_with_images returned
    m_pc,               \* matcher alone: "idle", "input" or "matched"
    u_csv,              \* validators alone: the file given to validate_csv_file
    u_images,           \* validators alone: the batch given to validate_images
    u_csv_out,          \* validators alone: what validate_csv_file returned
    u_img_out,          \* validators alone: what validate_images returned
    u_keys,             \* validators alone: the lookup key of each kept blob
    u_pc,               \* validators alone: "idle", "input", "csv", "images" or "keys"
    folders,            \* history: the folder paths produced so far, one per invocation
    process_success,    \* what process_records returned to run_full_workflow, as a string
    carried,            \* history: processing_results when the current run started
    reuses,             \* history: the runs started on an instance that had run before
    race,               \* concurrent invocations: the store they share, the runs, the calls
    up,                 \* one image upload: the blob, the function used, the stored object
    batch               \* the label-studio workflow: ImageProcessor and its batch upload

vars == <<csv_file, uploaded_images, pc, processing_results, df, validated_images,
          matched_records, missing_items, s3_folder, idx, db, skip_success, calls,
          db_at_start, prev_full, now, m_rows, m_images, m_out, m_pc,
          u_csv, u_images, u_csv_out, u_img_out, u_keys, u_pc, folders,
          process_success, carried, reuses, race, up, batch>>

wf_inputs == <<csv_file, uploaded_images, skip_success>>
m_vars == <<m_rows, m_images, m_out, m_pc>>
u_vars == <<u_csv, u_images, u_csv_out, u_img_out, u_keys, u_pc>>
history == <<db_at_start, prev_full, now, folders, carried, reuses>>
o_vars == <<race, up, batch>>

----------------------------------------------------------------------------
(* Bounds of the model *)

MaxRows == 2          \* rows of the uploaded table in a workflow run
MaxImages == 2        \* blobs of the uploaded batch in a workflow run
MaxMatchRows == 3     \* rows of the table given to the matcher alone
MaxMatchImages == 3   \* blobs of the batch given to the matcher alone

(* Program constants *)

MAX_FILE_SIZE_MB == 200
MaxBytes == MAX_FILE_SIZE_MB * 1024 * 1024
SUPPORTED_IMAGE_FORMATS == { <<"p","n","g">>, <<"j","p","g">>, <<"j","p","e","g">> }
required_columns == {"image_name", "value"}

----------------------------------------------------------------------------
(* Python string operations on sequences of characters *)

SeqsUpTo(S, n) == UNION { [1..k -> S] : k \in 0..n }

\* the lists of up to n different members of S
DistinctSeqsUpTo(S, n) ==
    { q \in SeqsUpTo(S, n) : \A i, j \in DOMAIN q : i # j => q[i] # q[j] }

Range(s) == { s[i] : i \in DOMAIN s }

\* str.lower() on one character (the letters file names of the model use)
LowerChar(c) ==
    CASE c = "A" -> "a" [] c = "B" -> "b" [] c = "C" -> "c" [] c = "D" -> "d"
      [] c = "J" -> "j" [] c = "P" -> "p" [] c = "G" -> "g" [] c = "E" -> "e"
      [] c = "N" -> "n" [] c = "I" -> "i" [] c = "F" -> "f"
      [] OTHER -> c

Lower(s) == [i \in DOMAIN s |-> LowerChar(s[i])]

\* s.split('.')[-1]: what follows the last '.', the whole string when there is none
LastSegment(s) ==
    LET dots == { i \in DOMAIN s : s[i] = "." }
        last == IF dots = {} THEN 0 ELSE CHOOSE i \in dots : \A j \in dots : j <= i
    IN  SubSeq(s, last + 1, Len(s))

StartsWith(s, p) == Len(p) <= Len(s) /\ SubSeq(s, 1, Len(p)) = p

\* s.replace(old, ''): every non-overlapping occurrence, left to right
RECURSIVE Remove(_, _)
Remove(s, old) ==
    IF Len(s) < Len(old) THEN s
    ELSE IF StartsWith(s, old) THEN Remove(SubSeq(s, Len(old) + 1, Len(s)), old)
    ELSE <<Head(s)>> \o Remove(Tail(s), old)

\* s.strip(): leading and trailing blanks removed
RECURSIVE LStrip(_)
LStrip(s) == IF s # <<>> /\ Head(s) = " " THEN LStrip(Tail(s)) ELSE s

RECURSIVE RStrip(_)
RStrip(s) ==
    IF s # <<>> /\ s[Len(s)] = " " THEN RStrip(SubSeq(s, 1, Len(s) - 1)) ELSE s

Strip(s) == RStrip(LStrip(s))

----------------------------------------------------------------------------
(* utils.validate_csv_file *)

\* What validate_csv_file returns as its table: None, or the DataFrame read
None == [table |-> FALSE, rows |-> <<>>]

DataFrame(rows) == [table |-> TRUE, rows |-> rows]

\* A tabular file: its byte size, whether pandas reads it, its header, its rows.
CsvTooLarge(f) == f.size > MaxBytes

MissingColumns(f) == required_columns \ f.columns

\* a slip: the check for an empty DataFrame is missing
MutValidateCsvFileNoEmptyCheck(f) ==
    IF CsvTooLarge(f) THEN [ok |-> FALSE, error |-> "CSV file too large", df |-> None]
    ELSE IF ~f.readable THEN [ok |-> FALSE, error |-> "CSV validation error", df |-> None]
    ELSE IF MissingColumns(f) # {}
        THEN [ok |-> FALSE, error |-> "Missing required columns", df |-> None]
    ELSE [ok |-> TRUE, error |-> "Valid", df |-> DataFrame(f.rows)]

\* (is_valid, error_message, dataframe)
validate_csv_file(f) ==
    IF CsvTooLarge(f) THEN [ok |-> FALSE, error |-> "CSV file too large", df |-> None]
    ELSE IF ~f.readable THEN [ok |-> FALSE, error |-> "CSV validation error", df |-> None]
    ELSE IF MissingColumns(f) # {}
        THEN [ok |-> FALSE, error |-> "Missing required columns", df |-> None]
    ELSE IF f.rows = <<>> THEN [ok |-> FALSE, error |-> "CSV file is empty", df |-> None]
    ELSE [ok |-> TRUE, error |-> "Valid", df |-> DataFrame(f.rows)]

----------------------------------------------------------------------------
(* utils.validate_images *)

file_ext(img) == LastSegment(Lower(img.name))

UnsupportedFormat(img) == file_ext(img) \notin SUPPORTED_IMAGE_FORMATS

\* a slip: a blob of exactly the maximum size is refused (>= for >)
MutImageTooLargeAtLimit(img) == img.size >= MaxBytes

ImageTooLarge(img) == img.size > MaxBytes

\* the message validate_images records for a rejected blob, "" for a kept one
RejectReason(img) ==
    IF UnsupportedFormat(img) THEN "Unsupported format"
    ELSE IF ImageTooLarge(img) THEN "File too large"
    ELSE ""

RECURSIVE KeptImages(_)
KeptImages(images) ==
    IF images = <<>> THEN <<>>
    ELSE IF RejectReason(Head(images)) = "" THEN <<Head(images)>> \o KeptImages(Tail(images))
    ELSE KeptImages(Tail(images))

RECURSIVE ImageErrors(_)
ImageErrors(images) ==
    IF images = <<>> THEN <<>>
    ELSE IF RejectReason(Head(images)) # ""
        THEN <<[name |-> Head(images).name, why |-> RejectReason(Head(images))]>>
             \o ImageErrors(Tail(images))
    ELSE ImageErrors(Tail(images))

\* a slip: a batch with errors is valid even when nothing is kept (>= 0 for > 0)
MutValidateImagesLenient(images) ==
    IF images = <<>>
    THEN [ok |-> FALSE, error |-> "No images uploaded", lines |-> <<>>, kept |-> <<>>]
    ELSE [ok |-> TRUE, error |-> "Image validation errors",
          lines |-> ImageErrors(images), kept |-> KeptImages(images)]

\* a slip: any rejected blob makes the whole batch invalid
MutValidateImagesStrict(images) ==
    IF images = <<>>
    THEN [ok |-> FALSE, error |-> "No images uploaded", lines |-> <<>>, kept |-> <<>>]
    ELSE IF ImageErrors(images) # <<>>
    THEN [ok |-> FALSE, error |-> "Image validation errors",
          lines |-> ImageErrors(images), kept |-> KeptImages(images)]
    ELSE [ok |-> TRUE, error |-> "Valid", lines |-> <<>>, kept |-> KeptImages(images)]

\* a slip: the check for an empty batch is missing
MutValidateImagesNoEmptyCheck(images) ==
    IF ImageErrors(images) # <<>>
    THEN [ok |-> Len(KeptImages(images)) > 0, error |-> "Image validation errors",
          lines |-> ImageErrors(images), kept |-> KeptImages(images)]
    ELSE [ok |-> TRUE, error |-> "Valid", lines |-> <<>>, kept |-> KeptImages(images)]

\* (is_valid, error_message, validated_images); lines are the per-blob error lines
validate_images(images) ==
    IF images = <<>>
    THEN [ok |-> FALSE, error |-> "No images uploaded", lines |-> <<>>, kept |-> <<>>]
    ELSE IF ImageErrors(images) # <<>>
    THEN [ok |-> Len(KeptImages(images)) > 0, error |-> "Image validation errors",
          lines |-> ImageErrors(images), kept |-> KeptImages(images)]
    ELSE [ok |-> TRUE, error |-> "Valid", lines |-> <<>>, kept |-> KeptImages(images)]

----------------------------------------------------------------------------
(* utils.match_csv_with_images *)

\* img.name.replace('.jpg', '').replace('.jpeg', '').replace('.png', '')
img_name(name) ==
    Remove(Remove(Remove(name, <<".","j","p","g">>), <<".","j","p","e","g">>),
           <<".","p","n","g">>)

\* the keys of image_lookup, in the order a Python dict keeps them (first insertion)
RECURSIVE LookupKeys(_)
LookupKeys(images) ==
    IF images = <<>> THEN <<>>
    ELSE LET front == LookupKeys(SubSeq(images, 1, Len(images) - 1))
             k == img_name(images[Len(images)].name)
         IN  IF k \in Range(front) THEN front ELSE Append(front, k)

\* a slip: the first blob with a key is kept, later ones are ignored
MutImageLookupFirst(images, k) ==
    LET hits == { i \in DOMAIN images : img_name(images[i].name) = k }
    IN  images[CHOOSE i \in hits : \A j \in hits : i <= j]

\* image_lookup[k]: a later blob with the same key overwrites an earlier one
image_lookup(images, k) ==
    LET hits == { i \in DOMAIN images : img_name(images[i].name) = k }
    IN  images[CHOOSE i \in hits : \A j \in hits : j <= i]

\* a slip: the row's key is compared without strip()
MutRowKey(row) == row.image_name

\* a slip: the row's key is folded to lower case before the lookup
MutRowKeyFolded(row) == Lower(Strip(row.image_name))

\* str(row['image_name']).strip()
RowKey(row) == Strip(row.image_name)

MissingImageMsg(k) == [kind |-> "Missing image for CSV record", ref |-> k]

MissingRecordMsg(k) ==
    [kind |-> "Missing CSV record for image", ref |-> k \o <<".","j","p","g">>]

\* the loop over df.iterrows(): matched records, in row order
RECURSIVE MatchRows(_, _)
MatchRows(rows, images) ==
    IF rows = <<>> THEN <<>>
    ELSE LET k == RowKey(Head(rows))
         IN  IF k \in Range(LookupKeys(images))
             THEN <<[image_name |-> k, description |-> Strip(Head(rows).value),
                     image_file |-> image_lookup(images, k)]>>
                  \o MatchRows(Tail(rows), images)
             ELSE MatchRows(Tail(rows), images)

\* the loop over df.iterrows(): the messages for rows without an image
RECURSIVE RowsWithoutImage(_, _)
RowsWithoutImage(rows, images) ==
    IF rows = <<>> THEN <<>>
    ELSE LET k == RowKey(Head(rows))
         IN  IF k \in Range(LookupKeys(images))
             THEN RowsWithoutImage(Tail(rows), images)
             ELSE <<MissingImageMsg(k)>> \o RowsWithoutImage(Tail(rows), images)

\* the loop over image_lookup.keys(): the messages for images without a record
RECURSIVE ImagesWithoutRecord(_, _)
ImagesWithoutRecord(keys, matched) ==
    IF keys = <<>> THEN <<>>
    ELSE IF \E i \in DOMAIN matched : matched[i].image_name = Head(keys)
        THEN ImagesWithoutRecord(Tail(keys), matched)
    ELSE <<MissingRecordMsg(Head(keys))>> \o ImagesWithoutRecord(Tail(keys), matched)

Reverse(q) == [i \in DOMAIN q |-> q[Len(q) + 1 - i]]

\* a slip: matched records are inserted at the front of the list
MutMatchReversed(rows, images) ==
    LET matched == MatchRows(rows, images)
    IN  [matched |-> Reverse(matched),
         missing |-> RowsWithoutImage(rows, images)
                     \o ImagesWithoutRecord(LookupKeys(images), matched)]

\* (matched_records, missing_items)
match_csv_with_images(rows, images) ==
    LET matched == MatchRows(rows, images)
    IN  [matched |-> matched,
         missing |-> RowsWithoutImage(rows, images)
                     \o ImagesWithoutRecord(LookupKeys(images), matched)]

----------------------------------------------------------------------------
(* data_ops: the collaborators of RAGProcessor *)

S3_FOLDER_PREFIX == "RAG_Update"

\* create_s3_folder(): the configured prefix and the time of the call, no I/O
create_s3_folder(t) == [prefix |-> S3_FOLDER_PREFIX, ts |-> t]

\* the s3_folder of a RAGProcessor that created none
NoFolder == [prefix |-> "", ts |-> 0]

\* existence check by image_name
check_image_exists(store, k) == \E i \in DOMAIN store : store[i] = k

\* insert of a row with business key k: image_name is unique, so a second row
\* with the same key is refused; a refused insert rolls back and reports false
insert(store, k) ==
    IF check_image_exists(store, k)
    THEN [ok |-> FALSE, store |-> store]
    ELSE [ok |-> TRUE, store |-> Append(store, k)]

\* one collaborator call: the operation, the matched record it is for (0: none)
\* and how it ended
Call(op, n, ret) == [op |-> op, rec |-> n, ret |-> ret]

\* What the external services do for one record: every service answers, or the
\* named one fails; "raises" is an exception no step expects (the store is down).
Outcomes == {"ok", "embed_fails", "upload_fails", "insert_fails", "raises"}

\* a slip: the existence check is made and its answer is not honoured
MutProcessImageRecordBlind(record, n, store, o, skip_flag) ==
    [success |-> TRUE, error_msg |-> "", raised |-> FALSE,
     store |-> Append(store, record.image_name),
     made |-> <<Call("check_image_exists", n,
                     IF \E i \in DOMAIN store : store[i] = record.image_name
                     THEN "true" ELSE "false"),
                Call("embed_image", n, "ok"), Call("upload_image", n, "ok"),
                Call("insert", n, "ok")>>]

\* a slip: an insert that fails leaves its row behind (no rollback)
MutProcessImageRecordNoRollback(record, n, store, o, skip_flag) ==
    LET k == record.image_name
        absent == Call("check_image_exists", n, "false")
        embed == Call("embed_image", n, "ok")
        upload == Call("upload_image", n, "ok")
    IN  IF o = "raises"
        THEN [success |-> FALSE, error_msg |-> "", raised |-> TRUE, store |-> store,
              made |-> <<Call("check_image_exists", n, "raised")>>]
        ELSE IF \E i \in DOMAIN store : store[i] = k
        THEN [success |-> skip_flag, error_msg |-> "already exists", raised |-> FALSE,
              store |-> store, made |-> <<Call("check_image_exists", n, "true")>>]
        ELSE IF o = "embed_fails"
        THEN [success |-> FALSE, error_msg |-> "EmbeddingError", raised |-> FALSE,
              store |-> store,
              made |-> <<absent, Call("embed_image", n, "failed")>>]
        ELSE IF o = "upload_fails"
        THEN [success |-> FALSE, error_msg |-> "StorageError", raised |-> FALSE,
              store |-> store,
              made |-> <<absent, embed, Call("upload_image", n, "failed")>>]
        ELSE IF o = "insert_fails"
        THEN [success |-> FALSE, error_msg |-> "insert failed", raised |-> FALSE,
              store |-> Append(store, k),
              made |-> <<absent, embed, upload, Call("insert", n, "failed")>>]
        ELSE [success |-> TRUE, error_msg |-> "", raised |-> FALSE,
              store |-> Append(store, k),
              made |-> <<absent, embed, upload, Call("insert", n, "ok")>>]

\* process_image_record(record, s3_folder) for the n-th matched record: the
\* returned (success, error_msg), whether it raised, the store afterwards and
\* the collaborator calls it made, in order.  Its caller reads only the pair
\* (success, error_msg); which flag it returns for a record that exists already
\* is not stated anywhere, so skip_flag is either value, fixed for a behaviour.
process_image_record(record, n, store, o, skip_flag) ==
    LET k == record.image_name
        absent == Call("check_image_exists", n, "false")
        embed == Call("embed_image", n, "ok")
        upload == Call("upload_image", n, "ok")
    IN  IF o = "raises"
        THEN [success |-> FALSE, error_msg |-> "", raised |-> TRUE, store |-> store,
              made |-> <<Call("check_image_exists", n, "raised")>>]
        ELSE IF check_image_exists(store, k)
        THEN [success |-> skip_flag, error_msg |-> "already exists", raised |-> FALSE,
              store |-> store, made |-> <<Call("check_image_exists", n, "true")>>]
        ELSE IF o = "embed_fails"
        THEN [success |-> FALSE, error_msg |-> "EmbeddingError", raised |-> FALSE,
              store |-> store,
              made |-> <<absent, Call("embed_image", n, "failed")>>]
        ELSE IF o = "upload_fails"
        THEN [success |-> FALSE, error_msg |-> "StorageError", raised |-> FALSE,
              store |-> store,
              made |-> <<absent, embed, Call("upload_image", n, "failed")>>]
        ELSE IF o = "insert_fails"
        THEN [success |-> FALSE, error_msg |-> "insert failed", raised |-> FALSE,
              store |-> store,
              made |-> <<absent, embed, upload, Call("insert", n, "failed")>>]
        ELSE [success |-> TRUE, error_msg |-> "", raised |-> FALSE,
              store |-> Append(store, k),
              made |-> <<absent, embed, upload, Call("insert", n, "ok")>>]

----------------------------------------------------------------------------
(* rag_processor.RAGProcessor *)

NoRef == <<>>

ErrorEntry(kind, ref, text) == [kind |-> kind, ref |-> ref, text |-> text]

\* RAGProcessor.__init__
InitResults ==
    [total_records |-> 0, successful |-> 0, failed |-> 0, processing_time |-> 0,
     errors |-> <<>>, success_items |-> <<>>, s3_folder |-> NoFolder, csv_s3_url |-> ""]

AppendError(r, e) == [r EXCEPT !.errors = Append(@, e)]

\* a slip: the except branch swallows the exception
MutCountRecordSwallow(r, record, res) ==
    IF res.raised
    THEN r
    ELSE IF res.success
    THEN [r EXCEPT !.successful = @ + 1,
                   !.success_items = Append(@, record.image_name)]
    ELSE AppendError([r EXCEPT !.failed = @ + 1],
                     ErrorEntry("record", record.image_name, res.error_msg))

\* a slip: a successful record is counted and not listed
MutCountRecordUnlisted(r, record, res) ==
    IF res.raised
    THEN AppendError([r EXCEPT !.failed = @ + 1],
                     ErrorEntry("record", record.image_name, "Unexpected error"))
    ELSE IF res.success
    THEN [r EXCEPT !.successful = @ + 1]
    ELSE AppendError([r EXCEPT !.failed = @ + 1],
                     ErrorEntry("record", record.image_name, res.error_msg))

\* a slip: a false flag leaves no trace in the result
MutCountRecordFailureDropped(r, record, res) ==
    IF res.raised
    THEN AppendError([r EXCEPT !.failed = @ + 1],
                     ErrorEntry("record", record.image_name, "Unexpected error"))
    ELSE IF res.success
    THEN [r EXCEPT !.successful = @ + 1,
                   !.success_items = Append(@, record.image_name)]
    ELSE r

\* a slip: the except branch records the error and forgets failed += 1
MutCountRecord(r, record, res) ==
    IF res.raised
    THEN AppendError(r, ErrorEntry("record", record.image_name, "Unexpected error"))
    ELSE IF res.success
    THEN [r EXCEPT !.successful = @ + 1,
                   !.success_items = Append(@, record.image_name)]
    ELSE AppendError([r EXCEPT !.failed = @ + 1],
                     ErrorEntry("record", record.image_name, res.error_msg))

\* process_records, lines 115-128: how one record's outcome is counted
CountRecord(r, record, res) ==
    IF res.raised
    THEN AppendError([r EXCEPT !.failed = @ + 1],
                     ErrorEntry("record", record.image_name, "Unexpected error"))
    ELSE IF res.success
    THEN [r EXCEPT !.successful = @ + 1,
                   !.success_items = Append(@, record.image_name)]
    ELSE AppendError([r EXCEPT !.failed = @ + 1],
                     ErrorEntry("record", record.image_name, res.error_msg))

\* validate_inputs, then run_full_workflow lines 154-157
ValidateInputs ==
    /\ pc = "start"
    /\ LET c == validate_csv_file(csv_file)
           v == validate_images(uploaded_images)
       IN  /\ df' = c.df
           /\ IF ~c.ok
              THEN /\ processing_results' =
                         AppendError(processing_results,
                                     ErrorEntry("Validation Error", NoRef, c.error))
                   /\ calls' = Append(calls, Call("validate_csv_file", 0, "failed"))
                   /\ pc' = "aborted_validation"
                   /\ UNCHANGED validated_images
              ELSE /\ validated_images' = v.kept
                   /\ calls' = calls \o
                         <<Call("validate_csv_file", 0, "ok"),
                           Call("validate_images", 0, IF v.ok THEN "ok" ELSE "failed")>>
                   /\ IF ~v.ok
                      THEN /\ processing_results' =
                                 AppendError(processing_results,
                                             ErrorEntry("Validation Error", NoRef, v.error))
                           /\ pc' = "aborted_validation"
                      ELSE /\ pc' = "matching"
                           /\ UNCHANGED processing_results
    /\ UNCHANGED <<wf_inputs, process_success, matched_records, missing_items, s3_folder,
                   idx, db, history, m_vars, u_vars, o_vars>>

\* a slip: match_data reports matches although it found none
MutMatchData(r, m) == [has_matches |-> TRUE, results |-> [r EXCEPT !.errors = @ \o m.missing]]

\* match_data: what it leaves in processing_results and whether it found matches
match_data(r, m) ==
    IF m.matched = <<>>
    THEN [has_matches |-> FALSE, results |-> r]
    ELSE [has_matches |-> TRUE, results |-> [r EXCEPT !.errors = @ \o m.missing]]

\* match_data, then run_full_workflow lines 160-163.  match_data has no handler
\* of its own: an exception in it is caught by run_full_workflow, lines 185-189.
MatchData ==
    /\ pc = "matching"
    /\ \/ /\ calls' = Append(calls, Call("match_csv_with_images", 0, "raised"))
          /\ processing_results' =
                AppendError(processing_results,
                            ErrorEntry("Workflow failed", NoRef, "unexpected error"))
          /\ pc' = "aborted_unexpected"
          /\ UNCHANGED <<matched_records, missing_items>>
       \/ LET m == match_csv_with_images(df.rows, validated_images)
              d == match_data(processing_results, m)
          IN  /\ matched_records' = m.matched
              /\ missing_items' = m.missing
              /\ calls' = Append(calls, Call("match_csv_with_images", 0, "ok"))
              /\ IF d.has_matches
                 THEN /\ processing_results' = d.results
                      /\ pc' = "s3"
                 ELSE /\ processing_results' =
                            AppendError(d.results,
                                        ErrorEntry("Matching Error", NoRef,
                                                   "No matching records found"))
                      /\ pc' = "aborted_matching"
    /\ UNCHANGED <<wf_inputs, process_success, df, validated_images, s3_folder, idx, db,
                   history, m_vars, u_vars, o_vars>>

\* setup_s3_storage, then run_full_workflow lines 166-169; the folder creation
\* and the manifest upload each either succeed or raise
SetupS3Storage ==
    /\ pc = "s3"
    /\ \E o \in {"ok", "folder_raises", "upload_raises"} :
          IF o = "folder_raises"
          THEN /\ calls' = Append(calls, Call("create_s3_folder", 0, "raised"))
               /\ processing_results' =
                     AppendError(processing_results,
                                 ErrorEntry("S3 Error", NoRef, "S3 setup failed"))
               /\ pc' = "aborted_s3"
               /\ UNCHANGED s3_folder
          ELSE /\ s3_folder' = create_s3_folder(now)
               /\ calls' = calls \o
                     <<Call("create_s3_folder", 0, "ok"),
                       Call("upload_csv_to_s3", 0, IF o = "ok" THEN "ok" ELSE "raised")>>
               /\ IF o = "ok"
                  THEN /\ processing_results' =
                             [processing_results EXCEPT !.s3_folder = s3_folder',
                                                        !.csv_s3_url = "csv_s3_url"]
                       /\ pc' = "process"
                  ELSE /\ processing_results' =
                             AppendError([processing_results EXCEPT !.s3_folder = s3_folder'],
                                         ErrorEntry("S3 Error", NoRef, "S3 setup failed"))
                       /\ pc' = "aborted_s3"
    /\ UNCHANGED <<wf_inputs, process_success, df, validated_images, matched_records,
                   missing_items, idx, db, history, m_vars, u_vars, o_vars>>

\* process_records, line 107
BeginProcessing ==
    /\ pc = "process"
    /\ processing_results' =
          [processing_results EXCEPT !.total_records = Len(matched_records)]
    /\ idx' = 0
    /\ pc' = "loop"
    /\ UNCHANGED <<wf_inputs, process_success, df, validated_images, matched_records,
                   missing_items, s3_folder, db, calls, history, m_vars, u_vars, o_vars>>

\* a slip: the loop gives up at the first failed record
MutLoopDone(n, records, r) == n = Len(records) \/ r.failed > 0

\* the loop of process_records ends when every matched record has had its turn
loop_done(n, records, r) == n = Len(records)

\* a slip: a record that failed is tried again
MutRetryFailed(n, res) == IF res.raised \/ ~res.success THEN n ELSE n + 1

\* the for loop of line 109: the next record has its turn whatever the outcome
next_record(n, res) == n + 1

\* how a call of process_image_record ended, for the call history
Returned(res) == IF res.raised THEN "raised" ELSE IF res.success THEN "true" ELSE "false"

\* process_records, one iteration of the loop of lines 109-128
ProcessRecord ==
    /\ pc = "loop"
    /\ ~loop_done(idx, matched_records, processing_results)
    /\ \E o \in Outcomes :
          LET n == idx + 1
              record == matched_records[n]
              res == process_image_record(record, n, db, o, skip_success)
          IN  /\ processing_results' = CountRecord(processing_results, record, res)
              /\ db' = res.store
              /\ calls' = calls \o <<Call("process_image_record", n, Returned(res))>> \o res.made
              /\ idx' = next_record(idx, res)
    /\ UNCHANGED <<wf_inputs, process_success, pc, df, validated_images, matched_records,
                   missing_items, s3_folder, history, m_vars, u_vars, o_vars>>

\* a slip: success is reported whenever a record was handled
MutOverallSuccess(r) == IF r.total_records > 0 THEN "true" ELSE "false"

\* process_records, lines 133-141: the flag it returns
overall_success(r) == IF r.successful > 0 THEN "true" ELSE "false"

\* process_records, lines 130-141, and run_full_workflow lines 174-183; the
\* elapsed time written to processing_time is not modelled (it stays 0)
FinishProcessing ==
    /\ pc = "loop"
    /\ loop_done(idx, matched_records, processing_results)
    /\ pc' = "done"
    /\ process_success' = overall_success(processing_results)
    /\ UNCHANGED <<wf_inputs, processing_results, df, validated_images, matched_records,
                   missing_items, s3_folder, idx, db, calls, history, m_vars, u_vars, o_vars>>

WorkflowReturned ==
    pc \in {"aborted_validation", "aborted_matching", "aborted_s3", "aborted_unexpected",
            "done"}

\* the run that just returned completed and inserted every matched record
FullySucceeded ==
    /\ pc = "done"
    /\ Len(db) - Len(db_at_start) = Len(matched_records)

\* the caller runs the workflow again on the same inputs: RAGProcessor() anew
NewRun ==
    /\ WorkflowReturned
    /\ pc' = "start"
    /\ processing_results' = InitResults
    /\ df' = None
    /\ validated_images' = <<>>
    /\ matched_records' = <<>>
    /\ missing_items' = <<>>
    /\ s3_folder' = NoFolder
    /\ idx' = 0
    /\ calls' = <<>>
    /\ db_at_start' = db
    /\ prev_full' = FullySucceeded
    /\ process_success' = "unset"
    /\ carried' = InitResults
    /\ UNCHANGED <<now, folders, reuses>>
    /\ UNCHANGED <<wf_inputs, db, m_vars, u_vars, o_vars>>

----------------------------------------------------------------------------
(* The inputs of the model *)

PoolImages ==
    { [name |-> <<"A",".","j","p","g">>, size |-> MaxBytes],
      [name |-> <<"B",".","p","n","g">>, size |-> 1024],
      [name |-> <<"C",".","g","i","f">>, size |-> 1024],
      [name |-> <<"C",".","j","p","e","g">>, size |-> MaxBytes + 1] }

PoolRows ==
    { [image_name |-> <<"A">>, value |-> <<"x">>],
      [image_name |-> <<"B"," ">>, value |-> <<" ","y">>],
      [image_name |-> <<"C">>, value |-> <<"z">>] }

AllColumns == {"image_name", "value"}

CsvOf(size, readable, columns, rows) ==
    [size |-> size, readable |-> readable, columns |-> columns, rows |-> rows]

OneRow == << [image_name |-> <<"A">>, value |-> <<"x">>] >>

PoolCsv ==
    { CsvOf(MaxBytes, TRUE, AllColumns, rows) : rows \in SeqsUpTo(PoolRows, MaxRows) }
    \cup { CsvOf(MaxBytes + 1, TRUE, AllColumns, OneRow),
           CsvOf(1024, FALSE, AllColumns, OneRow),
           CsvOf(1024, TRUE, {"value"}, OneRow),
           CsvOf(1024, TRUE, {"image_name", "name"}, OneRow) }

MatcherIdle ==
    /\ m_rows = <<>>
    /\ m_images = <<>>
    /\ m_out = [matched |-> <<>>, missing |-> <<>>]
    /\ m_pc = "idle"

NoCsvOut == [ok |-> FALSE, error |-> "", df |-> None]

NoImagesOut == [ok |-> FALSE, error |-> "", lines |-> <<>>, kept |-> <<>>]

ValidatorsIdle ==
    /\ u_csv = CsvOf(1024, TRUE, AllColumns, OneRow)
    /\ u_images = <<>>
    /\ u_csv_out = NoCsvOut
    /\ u_img_out = NoImagesOut
    /\ u_keys = <<>>
    /\ u_pc = "idle"

\* no concurrent invocations
NoRace == [store |-> <<>>, runs |-> <<>>, skip_flag |-> FALSE]

\* no object stored
NoObject == [content_type |-> "", read_from |-> 0]

\* no upload
NoUpload ==
    [pc |-> "idle", via |-> "", handed |-> [name |-> <<>>, cursor |-> 0],
     blob |-> [name |-> <<>>, cursor |-> 0], object |-> NoObject]

\* upload_images_batch, lines 187-195: the result it starts from
BatchResults(n) ==
    [total_images |-> n, successful |-> 0, failed |-> 0, errors |-> <<>>,
     uploaded_files |-> <<>>, s3_folder |-> ""]

\* ImageProcessor.__init__: its processing_results
InitImageResults ==
    [total_images |-> 0, upload_successful |-> 0, upload_failed |-> 0,
     import_successful |-> FALSE, errors |-> <<>>, s3_folder |-> ""]

\* no label-studio workflow
NoBatch ==
    [pc |-> "idle", project_id |-> 0, images |-> <<>>, i |-> 0, folder_raised |-> FALSE,
     results |-> BatchResults(0), attempts |-> <<>>, sync_calls |-> 0,
     processing_results |-> InitImageResults]

OthersIdle ==
    /\ race = NoRace
    /\ up = NoUpload
    /\ batch = NoBatch

Init ==
    /\ csv_file \in PoolCsv
    /\ uploaded_images \in DistinctSeqsUpTo(PoolImages, MaxImages)
    /\ skip_success \in BOOLEAN
    /\ db = <<>>
    /\ db_at_start = db
    /\ pc = "start"
    /\ processing_results = InitResults
    /\ df = None
    /\ validated_images = <<>>
    /\ matched_records = <<>>
    /\ missing_items = <<>>
    /\ s3_folder = NoFolder
    /\ idx = 0
    /\ calls = <<>>
    /\ prev_full = FALSE
    /\ now = 0
    /\ folders = <<>>
    /\ process_success = "unset"
    /\ carried = InitResults
    /\ reuses = 0
    /\ MatcherIdle
    /\ ValidatorsIdle
    /\ OthersIdle

Next ==
    \/ ValidateInputs
    \/ MatchData
    \/ SetupS3Storage
    \/ BeginProcessing
    \/ ProcessRecord
    \/ FinishProcessing
    \/ NewRun

Spec == Init /\ [][Next]_vars

\* run_full_workflow is one sequential call: once started, each of its steps is
\* taken when its turn comes (starting another run is up to the caller)
WorkflowStep ==
    \/ ValidateInputs
    \/ MatchData
    \/ SetupS3Storage
    \/ BeginProcessing
    \/ ProcessRecord
    \/ FinishProcessing

\* How far the sequential call is from its return: the stages left, then the
\* matched records the loop has not handled yet.
StagesLeft ==
    CASE pc = "start" -> 5
      [] pc = "matching" -> 4
      [] pc = "s3" -> 3
      [] pc = "process" -> 2
      [] pc = "loop" -> 1
      [] OTHER -> 0

StepsLeft == StagesLeft * (MaxRows + 1) + (Len(matched_records) - idx)

----------------------------------------------------------------------------
(* One RAGProcessor used for several runs: run_full_workflow called again on *)
(* the instance that has already run, with the same inputs                   *)

MaxReuses == 1        \* runs started on an instance that has run before
MaxReuseRows == 1     \* rows of the table handed to each of these runs

ReusePoolRows ==
    { [image_name |-> <<"A">>, value |-> <<"x">>],
      [image_name |-> <<"C">>, value |-> <<"z">>] }

\* a fresh RAGProcessor and the inputs every run on it is given: a table of
\* rows A and C (or none) and the blobs A.jpg and B.png
InitReuse ==
    /\ csv_file \in { CsvOf(1024, TRUE, AllColumns, rows) :
                         rows \in SeqsUpTo(ReusePoolRows, MaxReuseRows) }
    /\ uploaded_images = << [name |-> <<"A",".","j","p","g">>, size |-> 1024],
                            [name |-> <<"B",".","p","n","g">>, size |-> 1024] >>
    /\ skip_success \in BOOLEAN
    /\ db = <<>>
    /\ db_at_start = db
    /\ pc = "start"
    /\ processing_results = InitResults
    /\ df = None
    /\ validated_images = <<>>
    /\ matched_records = <<>>
    /\ missing_items = <<>>
    /\ s3_folder = NoFolder
    /\ idx = 0
    /\ calls = <<>>
    /\ prev_full = FALSE
    /\ now = 0
    /\ folders = <<>>
    /\ process_success = "unset"
    /\ carried = InitResults
    /\ reuses = 0
    /\ MatcherIdle
    /\ ValidatorsIdle
    /\ OthersIdle

\* a slip: run_full_workflow starts by creating the result anew
MutFreshResults(r) == InitResults

\* the result a run starts from: run_full_workflow and the methods it calls
\* assign no new dict to self.processing_results, only __init__ does
reused_results(r) == r

\* run_full_workflow called again on the same instance: the attributes stay as
\* the previous run left them until a step assigns them
ReuseRun ==
    /\ WorkflowReturned
    /\ reuses < MaxReuses
    /\ pc' = "start"
    /\ processing_results' = reused_results(processing_results)
    /\ carried' = processing_results
    /\ reuses' = reuses + 1
    /\ idx' = 0
    /\ calls' = <<>>
    /\ db_at_start' = db
    /\ prev_full' = FullySucceeded
    /\ process_success' = "unset"
    /\ UNCHANGED <<wf_inputs, df, validated_images, matched_records, missing_items,
                   s3_folder, db, now, folders, m_vars, u_vars, o_vars>>

NextReuse ==
    \/ ValidateInputs
    \/ MatchData
    \/ SetupS3Storage
    \/ BeginProcessing
    \/ ProcessRecord
    \/ FinishProcessing
    \/ ReuseRun

SpecReuse == InitReuse /\ [][NextReuse]_vars

----------------------------------------------------------------------------
(* The matcher on its own: match_csv_with_images applied to a table and a    *)
(* batch of blobs that passed validate_images                                *)

MatchPoolImages ==
    { [name |-> <<"A",".","j","p","g">>, size |-> 1024],
      [name |-> <<"A",".","p","n","g">>, size |-> 1024],
      [name |-> <<"B",".","j","p","g">>, size |-> 1024],
      [name |-> <<"B"," ",".","j","p","e","g">>, size |-> 1024] }

MatchPoolRows ==
    { [image_name |-> <<"A">>, value |-> <<"x">>],
      [image_name |-> <<" ","B"," ">>, value |-> <<"y">>],
      [image_name |-> <<"a">>, value |-> <<"z">>] }

WorkflowIdle ==
    /\ csv_file = CsvOf(1024, TRUE, AllColumns, OneRow)
    /\ uploaded_images = <<>>
    /\ skip_success = TRUE
    /\ db = <<>>
    /\ db_at_start = <<>>
    /\ pc = "idle"
    /\ processing_results = InitResults
    /\ df = None
    /\ validated_images = <<>>
    /\ matched_records = <<>>
    /\ missing_items = <<>>
    /\ s3_folder = NoFolder
    /\ idx = 0
    /\ calls = <<>>
    /\ prev_full = FALSE
    /\ now = 0
    /\ folders = <<>>
    /\ process_success = "unset"
    /\ carried = InitResults
    /\ reuses = 0

InitMatch ==
    /\ WorkflowIdle
    /\ OthersIdle
    /\ ValidatorsIdle
    /\ m_rows \in SeqsUpTo(MatchPoolRows, MaxMatchRows)
    /\ m_images \in SeqsUpTo(MatchPoolImages, MaxMatchImages)
    /\ \A i \in DOMAIN m_images : RejectReason(m_images[i]) = ""
    /\ m_out = [matched |-> <<>>, missing |-> <<>>]
    /\ m_pc = "input"

ApplyMatcher ==
    /\ m_pc = "input"
    /\ m_out' = match_csv_with_images(m_rows, m_images)
    /\ m_pc' = "matched"
    /\ UNCHANGED <<wf_inputs, process_success, pc, processing_results, df, validated_images,
                   matched_records, missing_items, s3_folder, idx, db, calls, history,
                   m_rows, m_images, u_vars, o_vars>>

NextMatch == ApplyMatcher

SpecMatch == InitMatch /\ [][NextMatch]_vars

----------------------------------------------------------------------------
(* The validators on their own: validate_csv_file and validate_images        *)
(* applied to a file and a batch, then the lookup keys match_csv_with_images *)
(* derives for the blobs that were kept                                      *)

UtilsPoolImages ==
    PoolImages \cup
    { [name |-> <<"A",".","J","P","G">>, size |-> 1024],
      [name |-> <<"A",".","j","p","g",".","p","n","g">>, size |-> 1024] }

InitUtils ==
    /\ WorkflowIdle
    /\ OthersIdle
    /\ MatcherIdle
    /\ u_csv \in PoolCsv
    /\ u_images \in SeqsUpTo(UtilsPoolImages, MaxImages)
    /\ u_csv_out = NoCsvOut
    /\ u_img_out = NoImagesOut
    /\ u_keys = <<>>
    /\ u_pc = "input"

wf_vars == <<wf_inputs, process_success, pc, processing_results, df, validated_images,
             matched_records, missing_items, s3_folder, idx, db, calls, history>>

ApplyValidateCsv ==
    /\ u_pc = "input"
    /\ u_csv_out' = validate_csv_file(u_csv)
    /\ u_pc' = "csv"
    /\ UNCHANGED <<wf_vars, m_vars, o_vars, u_csv, u_images, u_img_out, u_keys>>

ApplyValidateImages ==
    /\ u_pc = "csv"
    /\ u_img_out' = validate_images(u_images)
    /\ u_pc' = "images"
    /\ UNCHANGED <<wf_vars, m_vars, o_vars, u_csv, u_images, u_csv_out, u_keys>>

\* the loop of match_csv_with_images that builds image_lookup, on the kept blobs
DeriveKeys ==
    /\ u_pc = "images"
    /\ u_keys' = [i \in DOMAIN u_img_out.kept |-> img_name(u_img_out.kept[i].name)]
    /\ u_pc' = "keys"
    /\ UNCHANGED <<wf_vars, m_vars, o_vars, u_csv, u_images, u_csv_out, u_img_out>>

NextUtils ==
    \/ ApplyValidateCsv
    \/ ApplyValidateImages
    \/ DeriveKeys

SpecUtils == InitUtils /\ [][NextUtils]_vars

----------------------------------------------------------------------------
(* Folder paths: every invocation of the workflow asks create_s3_folder for  *)
(* its folder once, at the time of the call; the label-studio upload asks    *)
(* create_project_folder.  Invocations may follow each other within the same *)
(* second of the clock, or overlap.                                          *)

MaxClock == 3         \* seconds the clock advances
MaxInvocations == 3   \* folder paths produced
ProjectIds == {1, 2}

\* S3Service.create_project_folder: prefix-project/images_timestamp/, the
\* timestamp being strftime("%Y%m%d_%H%M%S") of the time of the call
create_project_folder(project_id, t) ==
    [prefix |-> S3_FOLDER_PREFIX, project |-> project_id, ts |-> t]

InitFolders ==
    /\ WorkflowIdle
    /\ OthersIdle
    /\ MatcherIdle
    /\ ValidatorsIdle

idle_vars == <<wf_inputs, process_success, carried, reuses, pc, processing_results, df,
              validated_images, matched_records, missing_items, s3_folder, idx, db,
              calls, db_at_start, prev_full, m_vars, u_vars, o_vars>>

\* a second passes
Tick ==
    /\ now < MaxClock
    /\ now' = now + 1
    /\ UNCHANGED <<idle_vars, folders>>

\* an invocation of run_full_workflow reaches setup_s3_storage, line 82
InvokeCreateS3Folder ==
    /\ Len(folders) < MaxInvocations
    /\ folders' = Append(folders, create_s3_folder(now))
    /\ UNCHANGED <<idle_vars, now>>

\* an upload to a label-studio project asks for the project's folder
InvokeCreateProjectFolder ==
    /\ Len(folders) < MaxInvocations
    /\ \E project_id \in ProjectIds :
          folders' = Append(folders, create_project_folder(project_id, now))
    /\ UNCHANGED <<idle_vars, now>>

NextFolders ==
    \/ Tick
    \/ InvokeCreateS3Folder
    \/ InvokeCreateProjectFolder

SpecFolders == InitFolders /\ [][NextFolders]_vars

----------------------------------------------------------------------------
(* Two invocations of the workflow at the same time (two sessions, each with *)
(* its own RAGProcessor) on one relational store.  Each invocation is in the *)
(* loop of process_records; the steps process_image_record makes for a       *)
(* record (existence check, embed, upload, insert) are separate calls to     *)
(* external services, so the steps of the two invocations interleave.        *)

MaxRaceRecords == 2   \* matched records of each invocation

Runs == {1, 2}

RaceKeys == { <<"A">>, <<"B">> }

\* an invocation about to enter the loop of process_records, line 107
RunOf(keys) ==
    [records |-> [i \in DOMAIN keys |-> [image_name |-> keys[i]]],
     idx |-> 0,
     step |-> "check",
     outcomes |-> <<>>,
     results |-> [InitResults EXCEPT !.total_records = Len(keys)]]

InitRace ==
    /\ WorkflowIdle
    /\ MatcherIdle
    /\ ValidatorsIdle
    /\ up = NoUpload
    /\ batch = NoBatch
    /\ \E k1, k2 \in SeqsUpTo(RaceKeys, MaxRaceRecords) \ {<<>>} :
          \E flag \in BOOLEAN :
              race = [store |-> <<>>, runs |-> <<RunOf(k1), RunOf(k2)>>, skip_flag |-> flag]

race_idle == <<wf_inputs, process_success, carried, reuses, pc, processing_results, df,
               validated_images, matched_records, missing_items, s3_folder, idx, db,
               calls, db_at_start, prev_full, now, folders, m_vars, u_vars, up, batch>>

\* the record the invocation r is handling
RaceRecord(r) == race.runs[r].records[race.runs[r].idx + 1]

\* the invocation r after process_records counted the outcome of its record
Counted(r, res, outcome) ==
    [race.runs[r] EXCEPT !.results = CountRecord(@, RaceRecord(r), res),
                         !.outcomes = Append(@, outcome),
                         !.idx = @ + 1,
                         !.step = "check"]

\* the existence check of process_image_record: a key found is skipped
RaceCheck(r) ==
    /\ race.runs[r].step = "check"
    /\ race.runs[r].idx < Len(race.runs[r].records)
    /\ IF check_image_exists(race.store, RaceRecord(r).image_name)
       THEN race' = [race EXCEPT !.runs[r] =
                        Counted(r, [success |-> race.skip_flag, error_msg |-> "already exists",
                                    raised |-> FALSE], "skipped")]
       ELSE race' = [race EXCEPT !.runs[r].step = "embed"]
    /\ UNCHANGED race_idle

RaceEmbed(r) ==
    /\ race.runs[r].step = "embed"
    /\ race' = [race EXCEPT !.runs[r].step = "upload"]
    /\ UNCHANGED race_idle

RaceUpload(r) ==
    /\ race.runs[r].step = "upload"
    /\ race' = [race EXCEPT !.runs[r].step = "insert"]
    /\ UNCHANGED race_idle

\* the insert of process_image_record, and process_records lines 115-122
RaceInsert(r) ==
    /\ race.runs[r].step = "insert"
    /\ LET ins == insert(race.store, RaceRecord(r).image_name)
       IN  race' = [race EXCEPT
                      !.store = ins.store,
                      !.runs[r] =
                          Counted(r, [success |-> ins.ok,
                                      error_msg |-> IF ins.ok THEN "" ELSE "duplicate key",
                                      raised |-> FALSE],
                                  IF ins.ok THEN "inserted" ELSE "duplicate")]
    /\ UNCHANGED race_idle

\* process_records, lines 130-141: the loop is over
RaceReturn(r) ==
    /\ race.runs[r].step = "check"
    /\ loop_done(race.runs[r].idx, race.runs[r].records, race.runs[r].results)
    /\ race' = [race EXCEPT !.runs[r].step = "returned"]
    /\ UNCHANGED race_idle

NextRace ==
    \E r \in Runs :
        \/ RaceCheck(r)
        \/ RaceEmbed(r)
        \/ RaceUpload(r)
        \/ RaceInsert(r)
        \/ RaceReturn(r)

SpecRace == InitRace /\ [][NextRace]_vars

----------------------------------------------------------------------------
(* Upload of one image blob to the object store, by either of the two        *)
(* upload functions of the sources.  The blob has passed validation; earlier *)
(* readers may have left its read cursor anywhere.  up.handed is the blob as  *)
(* it was handed to the function, up.blob the blob as the function leaves it. *)

MaxCursor == 3        \* the furthest position of the blob's read cursor

EndsWith(s, p) == Len(p) <= Len(s) /\ SubSeq(s, Len(s) - Len(p) + 1, Len(s)) = p

UploadPoolNames ==
    { <<"A",".","j","p","g">>, <<"B",".","p","n","g">>, <<"D",".","j","p","e","g">>,
      <<"A",".","J","P","G">>, <<"B",".","P","N","G">>, <<"D",".","J","P","E","G">> }

\* image_file.seek(0): the position the upload reads the blob from
seek(blob, position) == [blob EXCEPT !.cursor = position]

\* S3Service.upload_image_to_s3: the object handed to upload_fileobj
S3Service_upload_image_to_s3(image_file) ==
    [content_type |-> "image/jpeg", read_from |-> seek(image_file, 0).cursor]

\* data_ops.upload_image_to_s3: the object handed to upload_fileobj
upload_image_to_s3(image_file) ==
    [content_type |-> IF \/ EndsWith(Lower(image_file.name), <<".","j","p","g">>)
                         \/ EndsWith(Lower(image_file.name), <<".","j","p","e","g">>)
                      THEN "image/jpeg" ELSE "image/png",
     read_from |-> seek(image_file, 0).cursor]

InitUpload ==
    /\ WorkflowIdle
    /\ MatcherIdle
    /\ ValidatorsIdle
    /\ race = NoRace
    /\ batch = NoBatch
    /\ \E name \in UploadPoolNames : \E cursor \in 0..MaxCursor :
          /\ ~UnsupportedFormat([name |-> name])
          /\ up = [NoUpload EXCEPT !.pc = "input",
                                    !.handed = [name |-> name, cursor |-> cursor],
                                    !.blob = [name |-> name, cursor |-> cursor]]

upload_idle == <<wf_inputs, process_success, carried, reuses, pc, processing_results, df,
                 validated_images, matched_records, missing_items, s3_folder, idx, db,
                 calls, db_at_start, prev_full, now, folders, m_vars, u_vars, race, batch>>

\* S3Service.upload_image_to_s3, lines 111-135: the object is stored, or
\* upload_fileobj raises and the exception is raised again
UploadByS3Service ==
    /\ up.pc = "input"
    /\ \E stored \in BOOLEAN :
          up' = [up EXCEPT !.pc = IF stored THEN "uploaded" ELSE "raised",
                           !.via = "S3Service.upload_image_to_s3",
                           !.blob = seek(@, 0),
                           !.object = IF stored THEN S3Service_upload_image_to_s3(up.blob)
                                      ELSE NoObject]
    /\ UNCHANGED upload_idle

\* data_ops.upload_image_to_s3, lines 430-460: the same two outcomes
UploadByDataOps ==
    /\ up.pc = "input"
    /\ \E stored \in BOOLEAN :
          up' = [up EXCEPT !.pc = IF stored THEN "uploaded" ELSE "raised",
                           !.via = "data_ops.upload_image_to_s3",
                           !.blob = seek(@, 0),
                           !.object = IF stored THEN upload_image_to_s3(up.blob)
                                      ELSE NoObject]
    /\ UNCHANGED upload_idle

NextUpload ==
    \/ UploadByS3Service
    \/ UploadByDataOps

SpecUpload == InitUpload /\ [][NextUpload]_vars

----------------------------------------------------------------------------
(* The label-studio workflow: ImageProcessor.run_full_workflow validates the *)
(* batch, uploads it with S3Service.upload_images_batch and then asks Label  *)
(* Studio to import the folder.  batch.attempts is the history of the calls  *)
(* of upload_image_to_s3, batch.sync_calls counts import_images_to_project.  *)

MaxBatchImages == 2   \* blobs of the batch handed to ImageProcessor

\* well_formed: the content opens as an image of accepted dimensions
BatchPoolImages ==
    { [name |-> <<"A",".","j","p","g">>, size |-> 1024, well_formed |-> TRUE],
      [name |-> <<"B",".","p","n","g">>, size |-> MaxBytes, well_formed |-> TRUE],
      [name |-> <<"C",".","g","i","f">>, size |-> 1024, well_formed |-> TRUE],
      [name |-> <<"D",".","j","p","g">>, size |-> 1024, well_formed |-> FALSE] }

\* ImageValidator.validate_single_image
validate_single_image(image_file) ==
    /\ LastSegment(Lower(image_file.name)) \in SUPPORTED_IMAGE_FORMATS
    /\ image_file.size <= MaxBytes
    /\ image_file.well_formed

\* ImageProcessor.validate_inputs: a project, at least one image, every image valid
validate_batch_inputs(images, project_id) ==
    /\ project_id # 0
    /\ images # <<>>
    /\ \A n \in DOMAIN images : validate_single_image(images[n])

\* a slip: a failed upload is logged and not counted
MutCountUploadFailureUncounted(results, image_file, n, stored) ==
    IF stored
    THEN [results EXCEPT !.successful = @ + 1,
                         !.uploaded_files = Append(@, [filename |-> <<n, image_file.name>>,
                                                       original_name |-> image_file.name])]
    ELSE results

\* upload_images_batch, lines 207-228: how the upload of the n-th image is counted
count_upload(results, image_file, n, stored) ==
    IF stored
    THEN [results EXCEPT !.successful = @ + 1,
                         !.uploaded_files = Append(@, [filename |-> <<n, image_file.name>>,
                                                       original_name |-> image_file.name])]
    ELSE [results EXCEPT !.failed = @ + 1,
                         !.errors = Append(@, image_file.name)]

InitBatch ==
    /\ WorkflowIdle
    /\ MatcherIdle
    /\ ValidatorsIdle
    /\ race = NoRace
    /\ up = NoUpload
    /\ \E images \in SeqsUpTo(BatchPoolImages, MaxBatchImages) : \E project_id \in {0, 1} :
          batch = [NoBatch EXCEPT !.pc = "start", !.images = images,
                                  !.project_id = project_id]

batch_idle == <<wf_inputs, process_success, carried, reuses, pc, processing_results, df,
                validated_images, matched_records, missing_items, s3_folder, idx, db,
                calls, db_at_start, prev_full, now, folders, m_vars, u_vars, race, up>>

\* ImageProcessor.run_full_workflow, lines 167-170
BatchValidateInputs ==
    /\ batch.pc = "start"
    /\ IF validate_batch_inputs(batch.images, batch.project_id)
       THEN batch' = [batch EXCEPT !.pc = "folder"]
       ELSE batch' = [batch EXCEPT !.pc = "aborted_validation",
                                   !.processing_results.errors = Append(@, "Validation Error")]
    /\ UNCHANGED batch_idle

\* upload_images_batch, lines 187-202 and 238-242: the folder is created, or
\* create_project_folder raises and the batch returns with that error
BatchCreateFolder ==
    /\ batch.pc = "folder"
    /\ \E raises \in BOOLEAN :
          batch' = [batch EXCEPT
                      !.pc = IF raises THEN "batch_returned" ELSE "uploading",
                      !.i = 0,
                      !.folder_raised = raises,
                      !.results =
                          IF raises
                          THEN [BatchResults(Len(batch.images)) EXCEPT
                                    !.errors = <<"Batch upload failed">>]
                          ELSE [BatchResults(Len(batch.images)) EXCEPT
                                    !.s3_folder = "s3_folder"]]
    /\ UNCHANGED batch_idle

\* upload_images_batch, one iteration of the loop of lines 206-228:
\* upload_image_to_s3 stores the image or raises
BatchUploadOne ==
    /\ batch.pc = "uploading"
    /\ batch.i < Len(batch.images)
    /\ \E stored \in BOOLEAN :
          LET n == batch.i + 1
          IN  batch' = [batch EXCEPT
                          !.i = n,
                          !.attempts = Append(@, [index |-> n,
                                                  name |-> batch.images[n].name,
                                                  stored |-> stored]),
                          !.results = count_upload(@, batch.images[n], n, stored)]
    /\ UNCHANGED batch_idle

\* upload_images_batch, lines 230-236
BatchReturn ==
    /\ batch.pc = "uploading"
    /\ batch.i = Len(batch.images)
    /\ batch' = [batch EXCEPT !.pc = "batch_returned"]
    /\ UNCHANGED batch_idle

\* ImageProcessor.upload_images_to_s3, lines 82-101, then run_full_workflow
\* lines 173-176
BatchAfterUpload ==
    /\ batch.pc = "batch_returned"
    /\ LET r == [batch.processing_results EXCEPT
                    !.total_images = batch.results.total_images,
                    !.upload_successful = batch.results.successful,
                    !.upload_failed = batch.results.failed,
                    !.s3_folder = batch.results.s3_folder,
                    !.errors = @ \o batch.results.errors]
       IN  IF batch.results.successful > 0
           THEN batch' = [batch EXCEPT !.pc = "sync", !.processing_results = r]
           ELSE batch' = [batch EXCEPT
                            !.pc = "returned",
                            !.processing_results =
                                [r EXCEPT !.errors = Append(@, "Upload Error")]]
    /\ UNCHANGED batch_idle

\* ImageProcessor.sync_with_labelstudio, then run_full_workflow lines 179-200:
\* the import succeeds, reports a failure or raises
BatchSync ==
    /\ batch.pc = "sync"
    /\ \E o \in {"ok", "failed", "raises"} :
          batch' = [batch EXCEPT
                      !.pc = "returned",
                      !.sync_calls = @ + 1,
                      !.processing_results =
                          IF o = "ok"
                          THEN [@ EXCEPT !.import_successful = TRUE]
                          ELSE [@ EXCEPT !.errors = @ \o <<"Label Studio", "Sync Error">>]]
    /\ UNCHANGED batch_idle

NextBatch ==
    \/ BatchValidateInputs
    \/ BatchCreateFolder
    \/ BatchUploadOne
    \/ BatchReturn
    \/ BatchAfterUpload
    \/ BatchSync

SpecBatch == InitBatch /\ [][NextBatch]_vars

----------------------------------------------------------------------------
(* Properties of the workflow (specification Spec)                           *)

\* a counter of the result; a result without that counter counts nothing there
Counter(r, name) == IF name \in DOMAIN r THEN r[name] ELSE 0

\* a list of the result; a result without that list lists nothing there
Listed(r, name) == IF name \in DOMAIN r THEN r[name] ELSE <<>>

Skipped == Counter(processing_results, "skipped")

SkippedItems == Listed(processing_results, "skipped_items")

CallsTo(op, n) == { i \in DOMAIN calls : calls[i].op = op /\ calls[i].rec = n }

Called(op) == \E i \in DOMAIN calls : calls[i].op = op

\* the matched records whose existence check answered true
SkippedRecords ==
    { n \in DOMAIN matched_records :
        \E i \in CallsTo("check_image_exists", n) : calls[i].ret = "true" }

\* no collaborator failed or raised in the current run
AllAvailable == \A i \in DOMAIN calls : calls[i].ret \notin {"raised", "failed"}

CsvInvalid ==
    \/ csv_file.size > MaxBytes
    \/ ~csv_file.readable
    \/ ~({"image_name", "value"} \subseteq csv_file.columns)
    \/ csv_file.rows = <<>>

Rejected(img) == UnsupportedFormat(img) \/ ImageTooLarge(img)

NoImageKept == \A i \in DOMAIN uploaded_images : Rejected(uploaded_images[i])

AnyRejected == \E i \in DOMAIN uploaded_images : Rejected(uploaded_images[i])

ValidatorsOnly ==
    \A i \in DOMAIN calls : calls[i].op \in {"validate_csv_file", "validate_images"}

\* C1: when a run completes (validation, matching and storage preparation
\* succeeded and the loop over the matched records ended), the result satisfies
\* successful + skipped + failed = total_records, and total_records is the
\* number of matched records, whatever the outcome of each record was.  The
\* result of the code carries no skipped counter, so that term counts nothing.
Conservation ==
    pc = "done" =>
        /\ processing_results.successful + Skipped + processing_results.failed
              = processing_results.total_records
        /\ processing_results.total_records = Len(matched_records)

\* a completed run of two records in which one record was skipped because it
\* exists and the other one failed
ConservationWitness ==
    /\ pc = "done"
    /\ processing_results.total_records = 2
    /\ SkippedRecords # {}
    /\ skip_success
    /\ processing_results.failed = 1

\* C2: after a run that inserted every matched record, a second run on the same
\* inputs and store with every collaborator available returns successful = 0
\* and skipped = total_records, and leaves the store as it was.
Idempotency ==
    (prev_full /\ pc = "done" /\ AllAvailable) =>
        /\ processing_results.successful = 0
        /\ Skipped = processing_results.total_records
        /\ db = db_at_start

\* C3: a matched record whose existence check answers true is counted in
\* skipped and listed in skipped_items, and neither the embedder, the uploader
\* nor insert is called for it.
SkipPrecedence ==
    /\ \A n \in SkippedRecords :
          /\ CallsTo("embed_image", n) = {}
          /\ CallsTo("upload_image", n) = {}
          /\ CallsTo("insert", n) = {}
          /\ matched_records[n].image_name \in Range(SkippedItems)
    /\ Skipped = Cardinality(SkippedRecords)
    /\ Len(SkippedItems) = Cardinality(SkippedRecords)

\* C4: once the loop over the matched records has started, every matched record
\* is handed to process_image_record exactly once, in turn, whatever the
\* earlier records did (returned an error or raised), and the workflow can only
\* go on to its normal end.
PerRecordIsolation ==
    /\ pc = "loop" =>
          \A n \in DOMAIN matched_records :
              Cardinality(CallsTo("process_image_record", n)) = IF n <= idx THEN 1 ELSE 0
    /\ pc = "done" =>
          \A n \in DOMAIN matched_records :
              Cardinality(CallsTo("process_image_record", n)) = 1
    /\ Called("process_image_record") => pc \in {"loop", "done"}

\* a completed run whose first record raised and whose second record was
\* inserted all the same
PerRecordIsolationWitness ==
    /\ pc = "done"
    /\ Len(matched_records) = 2
    /\ \E i \in CallsTo("process_image_record", 1) : calls[i].ret = "raised"
    /\ \E i \in CallsTo("insert", 2) : calls[i].ret = "ok"

Stage(op) ==
    CASE op \in {"validate_csv_file", "validate_images"} -> 1
      [] op = "match_csv_with_images" -> 2
      [] op \in {"create_s3_folder", "upload_csv_to_s3"} -> 3
      [] OTHER -> 4

Reached(stage) == \E i \in DOMAIN calls : Stage(calls[i].op) >= stage

\* C5: the stages run in the order Validating, Matching, PreparingStorage,
\* Processing, Done, and a stage is entered only if every earlier one succeeded:
\* matching only with a valid table and at least one kept image, folder creation
\* and manifest upload only with at least one matched record, per-record
\* processing only after the manifest was uploaded.
AbortShortCircuit ==
    /\ \A i \in 1..(Len(calls) - 1) : Stage(calls[i].op) <= Stage(calls[i + 1].op)
    /\ Reached(2) => ~CsvInvalid /\ ~NoImageKept
    /\ Reached(3) => Called("match_csv_with_images") /\ matched_records # <<>>
    /\ Reached(4) => \E i \in DOMAIN calls :
                        calls[i].op = "upload_csv_to_s3" /\ calls[i].ret = "ok"
    /\ pc \in {"process", "loop", "done"} => Reached(3)
    /\ pc = "aborted_validation" => ~Reached(2)
    /\ pc = "aborted_matching" => ~Reached(3)
    /\ pc = "aborted_s3" => ~Reached(4)

\* a run stopped by the manifest upload, after matching found records
AbortShortCircuitWitness ==
    /\ pc = "aborted_s3"
    /\ matched_records # <<>>
    /\ ~Called("process_image_record")

\* C6: when the table or the image batch fails validation, the run returns all
\* counters zero and exactly one diagnostic, and only the validators were called.
ValidationGating ==
    (pc # "start" /\ (CsvInvalid \/ NoImageKept)) =>
        /\ pc = "aborted_validation"
        /\ processing_results.total_records = 0
        /\ processing_results.successful = 0
        /\ Skipped = 0
        /\ processing_results.failed = 0
        /\ Len(processing_results.errors) = 1
        /\ processing_results.errors[1].kind = "Validation Error"
        /\ ValidatorsOnly

\* a run stopped because every uploaded image was rejected, the table being valid
ValidationGatingWitness ==
    /\ pc = "aborted_validation"
    /\ ~CsvInvalid
    /\ uploaded_images # <<>>
    /\ NoImageKept

\* C7: when no row matches any image the run aborts with total_records = 0 and
\* exactly one entry in errors, that entry names a missing item, and neither the
\* folder is created nor anything uploaded.
ZeroMatchAbort ==
    pc = "aborted_matching" =>
        /\ processing_results.total_records = 0
        /\ Len(processing_results.errors) = 1
        /\ \E i \in DOMAIN missing_items :
              processing_results.errors[1].ref = missing_items[i].ref
        /\ ~Called("create_s3_folder")
        /\ ~Called("upload_csv_to_s3")

\* C10 as stated: any rejected file among the inputs stops the run at validation.
ValidationAlwaysFatal ==
    (pc # "start" /\ (CsvInvalid \/ AnyRejected)) =>
        /\ pc = "aborted_validation"
        /\ Len(processing_results.errors) = 1
        /\ ValidatorsOnly

\* C10, amended: validation stops the run only when the table is invalid or no
\* image is kept; then one diagnostic is recorded and only the validators were
\* called.  With at least one image kept, the rejected files are dropped, the
\* result records nothing about them, and the run goes on with the kept images
\* (looked at after validation, after matching and at the end of the run).
ValidationFatalOnlyWhenNothingKept ==
    /\ (pc # "start" /\ (CsvInvalid \/ NoImageKept)) =>
          /\ pc = "aborted_validation"
          /\ Len(processing_results.errors) = 1
          /\ ValidatorsOnly
    /\ (pc # "start" /\ ~CsvInvalid /\ ~NoImageKept) =>
          /\ pc # "aborted_validation"
          /\ \A i \in DOMAIN processing_results.errors :
                processing_results.errors[i].kind # "Validation Error"
    /\ (pc \in {"matching", "s3", "done"} /\ ~CsvInvalid /\ ~NoImageKept) =>
          /\ \A i \in DOMAIN validated_images : ~Rejected(validated_images[i])
          /\ Len(validated_images) =
                Cardinality({ i \in DOMAIN uploaded_images : ~Rejected(uploaded_images[i]) })
          /\ \A n \in DOMAIN matched_records : ~Rejected(matched_records[n].image_file)

\* a completed run on a batch with a rejected file and a kept one
ValidationFatalOnlyWhenNothingKeptWitness ==
    /\ pc = "done"
    /\ AnyRejected
    /\ processing_results.successful >= 1
    /\ db # <<>>

ResultKeys ==
    {"total_records", "successful", "failed", "processing_time", "errors",
     "success_items", "s3_folder", "csv_s3_url"}

Raised(ops) == \E i \in DOMAIN calls : calls[i].op \in ops /\ calls[i].ret = "raised"

\* the matched records whose process_image_record call returned false or raised
FailedRecords ==
    { n \in DOMAIN matched_records :
        \E i \in CallsTo("process_image_record", n) : calls[i].ret \in {"false", "raised"} }

RecordEntries ==
    { i \in DOMAIN processing_results.errors : processing_results.errors[i].kind = "record" }

LastError == processing_results.errors[Len(processing_results.errors)]

\* whatever a collaborator raised was turned into entries of the result
EscapeFree ==
    /\ pc \in {"start", "matching", "s3", "process", "loop", "done", "aborted_validation",
                "aborted_matching", "aborted_s3", "aborted_unexpected"}
    /\ DOMAIN processing_results = ResultKeys
    /\ processing_results.failed = Cardinality(FailedRecords)
    /\ Cardinality(RecordEntries) = processing_results.failed
    /\ Raised({"create_s3_folder", "upload_csv_to_s3"}) =>
          pc = "aborted_s3" /\ LastError.kind = "S3 Error"
    /\ Raised({"match_csv_with_images"}) =>
          pc = "aborted_unexpected" /\ LastError.kind = "Workflow failed"
    /\ Raised({"process_image_record"}) => pc \in {"loop", "done"}

\* C12: no exception escapes run_full_workflow: whichever collaborator fails or
\* raises (a validator, the matcher, the folder creation, the manifest upload,
\* any step of a record), a record's failure shows only as one entry of errors
\* and one increment of failed, and the call goes on until it returns the
\* result object: where it has not returned its next step can be taken, and
\* every step brings the return nearer.
NoExceptionEscapes ==
    /\ []EscapeFree
    /\ [](WorkflowReturned \/ ENABLED WorkflowStep)
    /\ [](StepsLeft >= 0)
    /\ [][WorkflowStep => StepsLeft' < StepsLeft]_vars

\* a completed run of two records: the first raised, the second failed at insert
NoExceptionEscapesWitness ==
    /\ pc = "done"
    /\ \E i \in CallsTo("process_image_record", 1) : calls[i].ret = "raised"
    /\ \E i \in CallsTo("insert", 2) : calls[i].ret = "failed"
    /\ processing_results.failed = 2
    /\ Len(processing_results.errors) >= 2

\* C13: when two matched records of a run have the same image_name and the
\* first one was inserted, the existence check of the second one sees that row
\* (unless the check itself raises) and neither the embedder, the uploader nor
\* insert is called for it; the store never holds two rows of one image_name.
DuplicateKeysOnce ==
    /\ \A n, m \in DOMAIN matched_records :
          (/\ n < m
           /\ m <= idx
           /\ matched_records[n].image_name = matched_records[m].image_name
           /\ \E i \in CallsTo("insert", n) : calls[i].ret = "ok") =>
              /\ CallsTo("check_image_exists", m) # {}
              /\ \A i \in CallsTo("check_image_exists", m) :
                    calls[i].ret \in {"true", "raised"}
              /\ CallsTo("embed_image", m) = {}
              /\ CallsTo("upload_image", m) = {}
              /\ CallsTo("insert", m) = {}
    /\ \A i, j \in DOMAIN db : i # j => db[i] # db[j]

\* a completed run on two rows of the same image_name: the first was inserted,
\* the second found it
DuplicateKeysOnceWitness ==
    /\ pc = "done"
    /\ Len(matched_records) = 2
    /\ matched_records[1].image_name = matched_records[2].image_name
    /\ \E i \in CallsTo("insert", 1) : calls[i].ret = "ok"
    /\ \E i \in CallsTo("check_image_exists", 2) : calls[i].ret = "true"
    /\ Len(db) = 1

\* C16: the missing-item messages of the matcher are in the errors of the
\* result whatever the outcome of matching was: when a record matched and also
\* when none matched and the run aborted.
MissingItemsAlwaysRecorded ==
    \A i \in DOMAIN missing_items :
        \E j \in DOMAIN processing_results.errors :
            /\ processing_results.errors[j].kind = missing_items[i].kind
            /\ processing_results.errors[j].ref = missing_items[i].ref

Aborted ==
    pc \in {"aborted_validation", "aborted_matching", "aborted_s3", "aborted_unexpected"}

\* the image_name of the matched records among the first n that are in S, in order
RECURSIVE NamesOf(_, _)
NamesOf(S, n) ==
    IF n = 0 THEN <<>>
    ELSE IF n \in S THEN Append(NamesOf(S, n - 1), matched_records[n].image_name)
    ELSE NamesOf(S, n - 1)

IsRecordEntry(e) == e.kind = "record"

\* the image_name each per-record entry of errors is about, in order
RecordRefs ==
    LET entries == SelectSeq(processing_results.errors, IsRecordEntry)
    IN  [i \in DOMAIN entries |-> entries[i].ref]

\* the matched records whose process_image_record call returned true
SucceededRecords ==
    { n \in DOMAIN matched_records :
        \E i \in CallsTo("process_image_record", n) : calls[i].ret = "true" }

\* how the calls of op for the n-th matched record ended
RetOf(op, n) == { calls[i].ret : i \in CallsTo(op, n) }

FirstCall(op, n) == CHOOSE i \in CallsTo(op, n) : \A j \in CallsTo(op, n) : i <= j

\* C17, first part: for every matched record handled, the existence check is
\* made once and first, the embedder is called only after the check answered
\* false, the uploader only after the embedder succeeded, insert only after the
\* upload succeeded.
StepOrdering ==
    \A n \in 1..idx :
        /\ Cardinality(CallsTo("check_image_exists", n)) = 1
        /\ \A op \in {"embed_image", "upload_image", "insert"} :
              Cardinality(CallsTo(op, n)) <= 1
        /\ CallsTo("embed_image", n) # {} =>
              /\ RetOf("check_image_exists", n) = {"false"}
              /\ FirstCall("check_image_exists", n) < FirstCall("embed_image", n)
        /\ CallsTo("upload_image", n) # {} =>
              /\ RetOf("embed_image", n) = {"ok"}
              /\ FirstCall("embed_image", n) < FirstCall("upload_image", n)
        /\ CallsTo("insert", n) # {} =>
              /\ RetOf("upload_image", n) = {"ok"}
              /\ FirstCall("upload_image", n) < FirstCall("insert", n)

\* C17, second part: successful counts only records whose insert reported
\* success.  process_records increments successful whenever process_image_record
\* returns a true flag (lines 115-117): this part holds if that flag is false
\* for a record that exists already, and fails if it is true.
SuccessfulOnlyAfterInsert ==
    /\ processing_results.successful = Cardinality(SucceededRecords)
    /\ \A n \in SucceededRecords : RetOf("insert", n) = {"ok"}

\* C24: within one run no collaborator is called twice for the same matched
\* record, the folder creation and the manifest upload (calls for no record)
\* are attempted at most once, and a call that failed is followed by no
\* further call for the same record: the record is counted as failed, once.
NoRetries ==
    /\ Cardinality({ <<calls[i].op, calls[i].rec>> : i \in DOMAIN calls }) = Len(calls)
    /\ \A i \in DOMAIN calls :
          (calls[i].rec > 0 /\ calls[i].op # "process_image_record"
              /\ calls[i].ret \in {"failed", "raised"}) =>
              /\ calls[i].rec \in FailedRecords
              /\ \A j \in DOMAIN calls : j > i => calls[j].rec # calls[i].rec
    /\ pc \in {"loop", "done"} =>
          processing_results.failed = Cardinality(FailedRecords)

\* a finished run of two records in which the embedder failed for the first
\* and the insert for the second: five calls before the loop, three for the
\* first record and five for the second, two failed records
NoRetriesWitness ==
    /\ pc = "done"
    /\ Len(matched_records) = 2
    /\ RetOf("embed_image", 1) = {"failed"}
    /\ RetOf("insert", 2) = {"failed"}
    /\ Len(calls) = 5 + 3 + 5
    /\ processing_results.failed = 2

IsPrefix(a, b) == Len(a) <= Len(b) /\ SubSeq(b, 1, Len(a)) = a

\* the last collaborator call of the history
LastCall == calls[Len(calls)]

\* every record of the current run whose insert succeeded has its row in the store
InsertedRowsKept ==
    \A n \in DOMAIN matched_records :
        RetOf("insert", n) = {"ok"} =>
            \E i \in DOMAIN db : i > Len(db_at_start) /\ db[i] = matched_records[n].image_name

\* C26: every step of the pipeline leaves the rows of the store in place and
\* adds at most one, and only by an insert that succeeded; a row inserted for a
\* record stays in the store when a later record fails or the run ends; a step
\* whose insert failed leaves the store as it was and its process_image_record
\* call reports false.
StoreMonotone ==
    /\ [](IsPrefix(db_at_start, db) /\ InsertedRowsKept)
    /\ [][/\ IsPrefix(db, db')
          /\ Len(db') <= Len(db) + 1
          /\ db' # db =>
                /\ calls'[Len(calls')] = Call("insert", idx', "ok")
                /\ db' = Append(db, matched_records[idx'].image_name)
          /\ (Len(calls') > Len(calls) /\ calls'[Len(calls')].op = "insert"
                /\ calls'[Len(calls')].ret = "failed") =>
                /\ db' = db
                /\ calls'[Len(calls) + 1] = Call("process_image_record", idx', "false")]_vars

\* a finished run of two records: the first was inserted, the insert of the
\* second failed, and the store holds the first record's row only
StoreMonotoneWitness ==
    /\ pc = "done"
    /\ Len(matched_records) = 2
    /\ RetOf("insert", 1) = {"ok"}
    /\ RetOf("insert", 2) = {"failed"}
    /\ db = db_at_start \o << matched_records[1].image_name >>

MatchingRows ==
    { i \in DOMAIN df.rows :
        \E j \in DOMAIN validated_images :
            img_name(validated_images[j].name) = Strip(df.rows[i].image_name) }

\* the n-th smallest member of a set of row numbers
NthOf(S, n) == CHOOSE i \in S : Cardinality({ j \in S : j <= i }) = n

RECURSIVE IsSubsequence(_, _)
IsSubsequence(a, b) ==
    IF a = <<>> THEN TRUE
    ELSE IF b = <<>> THEN FALSE
    ELSE IF Head(a) = Head(b) THEN IsSubsequence(Tail(a), Tail(b))
    ELSE IsSubsequence(a, Tail(b))

IsProcessCall(c) == c.op = "process_image_record"

\* C19: matched_records lists the matching rows in the row order of the table
\* (looked at after matching and at the end of the run); the records are handed
\* to process_image_record one after another in that order, each one's
\* sub-steps before the next one's; success_items (and skipped_items) are
\* subsequences of the keys of the matched records.
OrderPreservation ==
    /\ pc \in {"s3", "aborted_matching", "aborted_s3", "done"} =>
          /\ Len(matched_records) = Cardinality(MatchingRows)
          /\ \A n \in DOMAIN matched_records :
                /\ matched_records[n].image_name =
                      Strip(df.rows[NthOf(MatchingRows, n)].image_name)
                /\ matched_records[n].description =
                      Strip(df.rows[NthOf(MatchingRows, n)].value)
    /\ pc \in {"loop", "done"} =>
          /\ \A i \in 1..(Len(calls) - 1) :
                Stage(calls[i].op) = 4 =>
                    calls[i + 1].rec \in {calls[i].rec, calls[i].rec + 1}
          /\ LET handed == SelectSeq(calls, IsProcessCall)
             IN  /\ Len(handed) = idx
                 /\ \A k \in DOMAIN handed : handed[k].rec = k
          /\ processing_results.success_items = NamesOf(SucceededRecords, idx)
          /\ IsSubsequence(processing_results.success_items,
                           NamesOf(DOMAIN matched_records, Len(matched_records)))
          /\ IsSubsequence(SkippedItems, NamesOf(DOMAIN matched_records, Len(matched_records)))

\* a completed run on the rows B, A: both matched in that order, both inserted
OrderPreservationWitness ==
    /\ pc = "done"
    /\ Len(df.rows) = 2
    /\ NamesOf(DOMAIN matched_records, Len(matched_records)) = << <<"B">>, <<"A">> >>
    /\ processing_results.success_items = << <<"B">>, <<"A">> >>
    /\ db = << <<"B">>, <<"A">> >>

----------------------------------------------------------------------------
(* Properties of a reused RAGProcessor (specification SpecReuse)             *)

\* C28: the result object is never reset: a run on an instance that has run
\* before starts from the result the previous run left, keeps its errors and
\* success_items as a prefix and adds this run's records to its successful and
\* failed counts, while total_records is overwritten when process_records
\* starts; successful + failed == total_records is guaranteed for the first
\* run on a fresh instance only.
ReuseAccumulates ==
    /\ reuses = 0 => carried = InitResults
    /\ pc = "start" => processing_results = carried
    /\ processing_results.successful >= carried.successful
    /\ processing_results.failed >= carried.failed
    /\ IsPrefix(carried.errors, processing_results.errors)
    /\ IsPrefix(carried.success_items, processing_results.success_items)
    /\ processing_results.total_records =
          IF pc \in {"loop", "done"} THEN Len(matched_records) ELSE carried.total_records
    /\ pc = "done" =>
          processing_results.successful + processing_results.failed
              = carried.successful + carried.failed + processing_results.total_records
    /\ (pc = "done" /\ reuses = 0) =>
          processing_results.successful + processing_results.failed
              = processing_results.total_records

\* the second run on an instance whose first run ingested its one record: the
\* run completes with total_records = 1 and successful + failed = 2, the first
\* run's success_items entry still in place
ReuseAccumulatesWitness ==
    /\ reuses = 1
    /\ pc = "done"
    /\ carried.successful = 1
    /\ carried.total_records = 1
    /\ processing_results.total_records = 1
    /\ processing_results.successful + processing_results.failed = 2
    /\ Len(processing_results.success_items) + Len(processing_results.errors) >= 2

----------------------------------------------------------------------------
(* Properties of concurrent invocations (specification SpecRace)             *)

\* the rows of the store with business key k
RowsWithKey(k) == { i \in DOMAIN race.store : race.store[i] = k }

\* the records of invocation r whose insert was attempted
InsertAttempts(r) ==
    { i \in DOMAIN race.runs[r].outcomes :
        race.runs[r].outcomes[i] \in {"inserted", "duplicate"} }

\* the records of invocation r that process_records counted as failed
RaceFailed(r) ==
    { i \in DOMAIN race.runs[r].outcomes :
        \/ race.runs[r].outcomes[i] = "duplicate"
        \/ race.runs[r].outcomes[i] = "skipped" /\ ~race.skip_flag }

\* C25: when two concurrent invocations both pass the existence check for
\* the same key before either inserts, and so both attempt the insert, one
\* insert succeeds and the other fails on the duplicate key; the failure is a
\* per-record failed entry of the invocation it happened in, the store holds
\* exactly one row for the key, and neither invocation aborts: each handles
\* its remaining records and returns with every record counted.
AcceptedRace ==
    /\ \A k \in RaceKeys : Cardinality(RowsWithKey(k)) <= 1
    /\ \A i \in InsertAttempts(1) : \A j \in InsertAttempts(2) :
          race.runs[1].records[i] = race.runs[2].records[j] =>
              /\ {race.runs[1].outcomes[i], race.runs[2].outcomes[j]}
                    = {"inserted", "duplicate"}
              /\ Cardinality(RowsWithKey(race.runs[1].records[i].image_name)) = 1
    /\ \A r \in Runs :
          /\ Len(race.runs[r].outcomes) = race.runs[r].idx
          /\ race.runs[r].results.failed = Cardinality(RaceFailed(r))
          /\ Len(race.runs[r].results.errors) = Cardinality(RaceFailed(r))
          /\ \A i \in DOMAIN race.runs[r].outcomes :
                race.runs[r].outcomes[i] = "duplicate" =>
                    \E e \in DOMAIN race.runs[r].results.errors :
                        race.runs[r].results.errors[e]
                            = ErrorEntry("record", race.runs[r].records[i].image_name,
                                         "duplicate key")
          /\ race.runs[r].step = "returned" =>
                /\ race.runs[r].idx = Len(race.runs[r].records)
                /\ race.runs[r].results.successful + race.runs[r].results.failed
                      = race.runs[r].results.total_records

\* both invocations have the records A, B; both passed the check for A before
\* either inserted: the first invocation inserted A, the second failed on the
\* duplicate key, went on to B and inserted it, and both returned
AcceptedRaceWitness ==
    /\ \A r \in Runs :
          /\ race.runs[r].step = "returned"
          /\ race.runs[r].records = << [image_name |-> <<"A">>], [image_name |-> <<"B">>] >>
    /\ race.runs[1].outcomes[1] = "inserted"
    /\ race.runs[2].outcomes = <<"duplicate", "inserted">>
    /\ race.runs[2].results.failed = 1
    /\ race.store = << <<"A">>, <<"B">> >>

----------------------------------------------------------------------------
(* Properties of the uploads (specification SpecUpload)                      *)

\* the content type that goes with the extension of a file name
ContentTypeOf(name) ==
    IF Lower(LastSegment(name)) = <<"p","n","g">> THEN "image/png" ELSE "image/jpeg"

\* C27: every upload of an image blob reads the blob from its start and
\* stores the object with the content type of the file's extension: image/png
\* for .png, image/jpeg for .jpg and .jpeg.
UploadContentTypeAndCursor ==
    up.pc = "uploaded" =>
        /\ up.object.read_from = 0
        /\ up.blob.cursor = 0
        /\ up.object.content_type = ContentTypeOf(up.blob.name)

\* the part of C27 that holds for both functions: the blob is read from its start
UploadRewinds ==
    up.pc = "uploaded" => up.object.read_from = 0 /\ up.blob.cursor = 0

\* the content type is right whenever the upload is made by data_ops.upload_image_to_s3
UploadContentTypeByDataOps ==
    (up.pc = "uploaded" /\ up.via = "data_ops.upload_image_to_s3") =>
        up.object.content_type = ContentTypeOf(up.blob.name)

----------------------------------------------------------------------------
(* Properties of the label-studio workflow (specification SpecBatch)         *)

BatchHasReturned == batch.pc \in {"batch_returned", "sync", "returned"}

\* C30: upload_images_batch attempts every image once, in input order,
\* whatever happened to the earlier ones; when the folder creation did not
\* raise it returns successful + failed == total_images with one
\* uploaded_files entry per success and one errors entry per failure; the
\* Label Studio import is attempted only if at least one image was uploaded,
\* and then once.
BatchAccounting ==
    /\ Len(batch.attempts) = batch.i
    /\ \A n \in DOMAIN batch.attempts :
          /\ batch.attempts[n].index = n
          /\ batch.attempts[n].name = batch.images[n].name
    /\ (BatchHasReturned /\ ~batch.folder_raised) =>
          /\ Len(batch.attempts) = Len(batch.images)
          /\ batch.results.total_images = Len(batch.images)
          /\ batch.results.successful + batch.results.failed = batch.results.total_images
          /\ batch.results.successful
                = Cardinality({ n \in DOMAIN batch.attempts : batch.attempts[n].stored })
          /\ Len(batch.results.uploaded_files) = batch.results.successful
          /\ Len(batch.results.errors) = batch.results.failed
    /\ (BatchHasReturned /\ batch.folder_raised) =>
          /\ batch.attempts = <<>>
          /\ batch.results.successful = 0
    /\ batch.sync_calls <= 1
    /\ batch.sync_calls = 1 => batch.results.successful > 0
    /\ (batch.pc = "returned" /\ batch.results.successful > 0) => batch.sync_calls = 1
    /\ batch.pc = "aborted_validation" => batch.attempts = <<>> /\ batch.sync_calls = 0

\* a batch of two images: the upload of the first raised, the second was
\* stored, and the import was attempted
BatchAccountingWitness ==
    /\ batch.pc = "returned"
    /\ Len(batch.images) = 2
    /\ Len(batch.attempts) = 2
    /\ ~batch.attempts[1].stored
    /\ batch.attempts[2].stored
    /\ batch.results.successful = 1
    /\ batch.results.failed = 1
    /\ batch.sync_calls = 1

----------------------------------------------------------------------------
(* Properties of the matcher (specification SpecMatch)                       *)

ImageKeys == { img_name(m_images[i].name) : i \in DOMAIN m_images }

TableKeys == { Strip(m_rows[i].image_name) : i \in DOMAIN m_rows }

RowsOf(k) == Cardinality({ i \in DOMAIN m_rows : Strip(m_rows[i].image_name) = k })

MatchedOf(k) ==
    Cardinality({ i \in DOMAIN m_out.matched : m_out.matched[i].image_name = k })

Messages(kind, ref) ==
    Cardinality({ i \in DOMAIN m_out.missing :
                    m_out.missing[i].kind = kind /\ m_out.missing[i].ref = ref })

\* C8: the matcher emits a matched record for exactly the rows whose trimmed
\* key is the derived key of some image, one 'missing image' message for each
\* row whose key has no image, and one 'missing record' message for each image
\* key that no matched record refers to; it emits nothing else.
SymmetricMatching ==
    m_pc = "matched" =>
        /\ \A k \in ImageKeys \cup TableKeys :
              /\ MatchedOf(k) = IF k \in ImageKeys THEN RowsOf(k) ELSE 0
              /\ Messages("Missing image for CSV record", k)
                    = IF k \in ImageKeys THEN 0 ELSE RowsOf(k)
              /\ Messages("Missing CSV record for image", k \o <<".","j","p","g">>)
                    = IF k \in ImageKeys /\ RowsOf(k) = 0 THEN 1 ELSE 0
        /\ Len(m_out.matched) = Cardinality({ i \in DOMAIN m_rows :
                                                Strip(m_rows[i].image_name) \in ImageKeys })
        /\ Len(m_out.missing) =
              Cardinality({ i \in DOMAIN m_rows : Strip(m_rows[i].image_name) \notin ImageKeys })
              + Cardinality(ImageKeys \ TableKeys)

\* rows {A, B, a} with image keys {A, B, 'B '}: two matched records, one
\* message for the row a and one for the image key 'B '
SymmetricMatchingWitness ==
    /\ m_pc = "matched"
    /\ TableKeys = { <<"A">>, <<"B">>, <<"a">> }
    /\ ImageKeys = { <<"A">>, <<"B">>, <<"B"," ">> }
    /\ Len(m_out.matched) = 2
    /\ Len(m_out.missing) = 2

\* C9: every blob given to the matcher is the image_file of a matched record or
\* is named in a 'missing record' message, every row yields a matched record or
\* a 'missing image' message, and matched records exist only for keys present
\* on both sides.
NoSilentDrop ==
    m_pc = "matched" =>
        /\ \A i \in DOMAIN m_images :
              \/ \E n \in DOMAIN m_out.matched : m_out.matched[n].image_file = m_images[i]
              \/ Messages("Missing CSV record for image",
                          img_name(m_images[i].name) \o <<".","j","p","g">>) >= 1
        /\ \A i \in DOMAIN m_rows :
              \/ MatchedOf(Strip(m_rows[i].image_name)) >= 1
              \/ Messages("Missing image for CSV record", Strip(m_rows[i].image_name)) >= 1
        /\ \A n \in DOMAIN m_out.matched :
              m_out.matched[n].image_name \in ImageKeys \cap TableKeys

\* the rows of the table whose key, with or without trimming the image's
\* derived key as well, is the key of some blob of the batch
RowsWithImage(trim_image_key) ==
    { i \in DOMAIN m_rows :
        \E j \in DOMAIN m_images :
            Strip(m_rows[i].image_name)
                = IF trim_image_key THEN Strip(img_name(m_images[j].name))
                  ELSE img_name(m_images[j].name) }

\* C21 as stated: a row is paired with an image exactly when the row's key and
\* the image's derived key are equal after trimming whitespace from both,
\* letter case being significant.
MatchCriterionBothTrimmed ==
    m_pc = "matched" =>
        /\ \A i \in DOMAIN m_rows :
              (\E n \in DOMAIN m_out.matched :
                  m_out.matched[n].image_name = Strip(m_rows[i].image_name))
              <=> i \in RowsWithImage(TRUE)
        /\ Len(m_out.matched) = Cardinality(RowsWithImage(TRUE))

\* C21, amended: a row is paired with an image exactly when the row's key,
\* trimmed of surrounding whitespace, equals the image's derived key as it is
\* (the derived key is not trimmed); the comparison is exact, so keys that
\* differ in letter case or in whitespace inside the file name never match.
MatchCriterion ==
    m_pc = "matched" =>
        /\ \A i \in DOMAIN m_rows :
              (\E n \in DOMAIN m_out.matched :
                  m_out.matched[n].image_name = Strip(m_rows[i].image_name))
              <=> i \in RowsWithImage(FALSE)
        /\ Len(m_out.matched) = Cardinality(RowsWithImage(FALSE))
        /\ \A n \in DOMAIN m_out.matched :
              img_name(m_out.matched[n].image_file.name) = m_out.matched[n].image_name

\* rows a and ' B ' with the blobs A.jpg, 'B .jpeg' and B.jpg: only the row
\* ' B ' is paired, and with B.jpg
MatchCriterionWitness ==
    /\ m_pc = "matched"
    /\ m_rows = << [image_name |-> <<"a">>, value |-> <<"z">>],
                   [image_name |-> <<" ","B"," ">>, value |-> <<"y">>] >>
    /\ { m_images[j].name : j \in DOMAIN m_images }
          = { <<"A",".","j","p","g">>, <<"B"," ",".","j","p","e","g">>,
              <<"B",".","j","p","g">> }
    /\ Len(m_out.matched) = 1
    /\ m_out.matched[1].image_file.name = <<"B",".","j","p","g">>

\* the positions in the batch of the blobs whose derived key is k
BlobsOf(k) == { j \in DOMAIN m_images : img_name(m_images[j].name) = k }

\* the position of the blob that comes last in the batch among those with key k
LastBlobOf(k) == CHOOSE j \in BlobsOf(k) : \A h \in BlobsOf(k) : h <= j

\* C22: when several blobs of a batch derive the same key, every matched
\* record for that key carries the blob that comes last in the batch, and the
\* overwritten blobs produce no message: the messages about images are one per
\* key that no row refers to, whatever the number of blobs with that key.
LastWins ==
    m_pc = "matched" =>
        /\ \A n \in DOMAIN m_out.matched :
              m_out.matched[n].image_file = m_images[LastBlobOf(m_out.matched[n].image_name)]
        /\ \A k \in ImageKeys :
              Messages("Missing CSV record for image", k \o <<".","j","p","g">>)
                  = IF RowsOf(k) = 0 THEN 1 ELSE 0
        /\ Cardinality({ i \in DOMAIN m_out.missing :
                            m_out.missing[i].kind = "Missing CSV record for image" })
              = Cardinality({ k \in ImageKeys : RowsOf(k) = 0 })

\* the batch A.jpg, A.png with two rows of key A: both matched records carry
\* A.png and there is no message at all
LastWinsWitness ==
    /\ m_pc = "matched"
    /\ m_images = << [name |-> <<"A",".","j","p","g">>, size |-> 1024],
                     [name |-> <<"A",".","p","n","g">>, size |-> 1024] >>
    /\ Len(m_out.matched) = 2
    /\ \A n \in DOMAIN m_out.matched :
          m_out.matched[n].image_file.name = <<"A",".","p","n","g">>
    /\ m_out.missing = <<>>

----------------------------------------------------------------------------
(* Properties of the validators (specification SpecUtils)                    *)

\* the blobs of the batch that have a supported extension and an allowed size
Acceptable == { i \in DOMAIN u_images : ~Rejected(u_images[i]) }

\* C11: validate_images returns ok = true if and only if at least one blob of
\* the batch is kept; an empty batch returns ok = false with the 'no images'
\* message and an empty kept list, and a batch in which every blob is rejected
\* returns ok = false with one error line per blob and another message.
ValidateImagesOkIffKept ==
    u_pc \in {"images", "keys"} =>
        /\ u_img_out.ok <=> u_img_out.kept # <<>>
        /\ u_img_out.ok <=> Acceptable # {}
        /\ Len(u_img_out.kept) = Cardinality(Acceptable)
        /\ u_images = <<>> =>
              /\ ~u_img_out.ok
              /\ u_img_out.error = "No images uploaded"
              /\ u_img_out.kept = <<>>
        /\ (u_images # <<>> /\ Acceptable = {}) =>
              /\ ~u_img_out.ok
              /\ u_img_out.error = "Image validation errors"
              /\ Len(u_img_out.lines) = Len(u_images)
        /\ u_images # <<>> => u_img_out.error # "No images uploaded"

\* a batch of two blobs, one of an unsupported format and one too large
ValidateImagesOkIffKeptWitness ==
    /\ u_pc = "images"
    /\ Len(u_images) = 2
    /\ UnsupportedFormat(u_images[1])
    /\ ~UnsupportedFormat(u_images[2]) /\ ImageTooLarge(u_images[2])
    /\ ~u_img_out.ok

CsvAcceptable ==
    /\ u_csv.size <= MaxBytes
    /\ u_csv.readable
    /\ {"image_name", "value"} \subseteq u_csv.columns
    /\ u_csv.rows # <<>>

\* C15: validate_csv_file returns ok = true, with the table, exactly when the
\* file is within the size limit, parses, has both required columns and has at
\* least one row; in every other case it returns ok = false, a reason among
\* oversize, parse error, missing columns and empty, and no table.
ValidateCsvAllOrNothing ==
    u_pc \in {"csv", "images", "keys"} =>
        /\ u_csv_out.ok <=> CsvAcceptable
        /\ u_csv_out.ok => u_csv_out.df = DataFrame(u_csv.rows) /\ u_csv_out.error = "Valid"
        /\ ~u_csv_out.ok =>
              /\ u_csv_out.df = None
              /\ u_csv_out.error \in {"CSV file too large", "CSV validation error",
                                       "Missing required columns", "CSV file is empty"}
        /\ u_csv.size > MaxBytes => u_csv_out.error = "CSV file too large"
        /\ (u_csv.size <= MaxBytes /\ u_csv.readable /\ u_csv.rows = <<>>
              /\ {"image_name", "value"} \subseteq u_csv.columns) =>
              u_csv_out.error = "CSV file is empty"

\* a file with rows and without the image_name column: refused, no table
ValidateCsvAllOrNothingWitness ==
    /\ u_pc = "csv"
    /\ u_csv.rows # <<>>
    /\ "image_name" \notin u_csv.columns
    /\ u_csv_out = [ok |-> FALSE, error |-> "Missing required columns", df |-> None]

\* a blob whose extension, letter case aside, is an allowed one and whose size
\* is at most the configured maximum
WithinLimits(img) ==
    /\ Lower(LastSegment(img.name)) \in SUPPORTED_IMAGE_FORMATS
    /\ img.size <= MAX_FILE_SIZE_MB * 1024 * 1024

\* the positions of the batch that hold a blob within, or outside, the limits
PositionsWithin == { i \in DOMAIN u_images : WithinLimits(u_images[i]) }

PositionsOutside == DOMAIN u_images \ PositionsWithin

\* C23: the kept list of validate_images is exactly the blobs of the batch
\* that are within the limits, in input order; the error message has exactly
\* one line per rejected blob, naming it, in input order; kept and rejected
\* together account for every blob of the batch.
ValidateImagesPartition ==
    u_pc \in {"images", "keys"} =>
        /\ Len(u_img_out.kept) = Cardinality(PositionsWithin)
        /\ \A n \in DOMAIN u_img_out.kept :
              u_img_out.kept[n] = u_images[NthOf(PositionsWithin, n)]
        /\ Len(u_img_out.lines) = Cardinality(PositionsOutside)
        /\ \A n \in DOMAIN u_img_out.lines :
              /\ u_img_out.lines[n].name = u_images[NthOf(PositionsOutside, n)].name
              /\ u_img_out.lines[n].why \in {"Unsupported format", "File too large"}
        /\ Len(u_img_out.kept) + Len(u_img_out.lines) = Len(u_images)
        /\ u_img_out.lines # <<>> <=> u_img_out.error = "Image validation errors"

\* the batch C.gif, A.jpg (of exactly the maximum size): A.jpg is kept and the
\* message has the one line for C.gif
ValidateImagesPartitionWitness ==
    /\ u_pc = "images"
    /\ Len(u_images) = 2
    /\ u_images[1].name = <<"C",".","g","i","f">>
    /\ u_images[2] = [name |-> <<"A",".","j","p","g">>, size |-> MAX_FILE_SIZE_MB * 1024 * 1024]
    /\ u_img_out.kept = <<u_images[2]>>
    /\ u_img_out.lines = << [name |-> <<"C",".","g","i","f">>, why |-> "Unsupported format"] >>

\* a file name with its final extension (what follows the last '.') removed
WithoutFinalExtension(name) ==
    LET dots == { i \in DOMAIN name : name[i] = "." }
    IN  IF dots = {} THEN name
        ELSE SubSeq(name, 1, (CHOOSE i \in dots : \A j \in dots : j <= i) - 1)

\* C20: for every blob kept by validate_images, the lookup key the matcher
\* builds is the file name with its final extension removed and nothing else
\* changed.
KeyDerivation ==
    u_pc = "keys" =>
        \A i \in DOMAIN u_img_out.kept :
            u_keys[i] = WithoutFinalExtension(u_img_out.kept[i].name)

----------------------------------------------------------------------------
(* Properties of the folder paths (specification SpecFolders)                *)

\* C14: the folder path produced for an invocation is never equal to the folder
\* path produced for any other invocation, whether the two overlap or follow
\* each other at once.
FolderUniqueness ==
    \A i, j \in DOMAIN folders : i # j => folders[i] # folders[j]

====
